---- MODULE Spec2Model ----
(***************************************************************************)
(* Model of core::Config (core/utils.hpp, core/utils.cpp): a map from      *)
(* string keys to type-erased values with a typeid-checked read.           *)
(*                                                                         *)
(* values_ is the std::unordered_map<std::string, ConfigValue>; it is      *)
(* modelled as the set of its nodes [key, value].  A ConfigValue is the    *)
(* pair (type_, data_): the std::type_index tag and the shared_ptr<void>   *)
(* to a heap object, which is modelled by its dynamic type and its bits.   *)
(***************************************************************************)
EXTENDS Integers, FiniteSets, Sequences, TLC

\* ---------------------------------------------------------------- bounds
\* keys are the strings "k1" .. "kMaxKey"; only their identity matters
MaxKey == 2
\* a value of any type is one of the bit patterns 0 .. MaxVal
MaxVal == 1

\* make_shared is called at most MaxAddr times in the two-store model
MaxAddr == 3

\* RaiiWrapper objects that are constructed, and the resources wrapped
MaxWrap == 2
MaxRes == 2

\* references to the Logger taken with getInstance(), and lines written
MaxRef == 2
MaxLog == 2

\* threads that use the Logger at once, and calls each of them makes
MaxThread == 2
MaxCall == 2

\* quests added to a QuestManager by a caller other than main, and the times
\* one quest is started
MaxQuest == 3
MaxStart == 2

\* the runs of the quiz within one start() of a quest: the first and its retries
MaxAttempt == 2

Keys == 1..MaxKey
Bits == 0..MaxVal
Addrs == 1..MaxAddr
Wrappers == 1..MaxWrap
Resources == 1..MaxRes
Refs == 1..MaxRef
Threads == 1..MaxThread

\* ---------------------------------------------------------------- types
\* object types stored in a Config: two of those the library instantiates set
\* and get for (utils.cpp:100-108); the store treats a type as an opaque
\* identity, so any two distinct types behave as these do
ValueTypes == {"int", "std::string"}

\* a template argument T, as deduced for the forwarding reference T&& or
\* written in get<T>: U for an rvalue of object type U, const U& for a const
\* lvalue
TemplateArgs ==
    {T \in [name : ValueTypes, const : BOOLEAN, ref : BOOLEAN] : T.const = T.ref}

\* std::decay<T>::type: the reference and the top-level cv-qualifier go
Decay(T) == [name |-> T.name, const |-> FALSE, ref |-> FALSE]

\* std::type_index(typeid(T)): typeid ignores references and top-level cv
TypeIndex(T) == T.name

\* typeid(void), the tag of a default-constructed ConfigValue
VoidType == "void"

\* an empty std::shared_ptr<void>
NullPtr == [dyn |-> "null", bits |-> -1]

\* std::make_shared<DecayedT>(value): a heap object of dynamic type DecayedT
MakeShared(DecayedT, bits) == [dyn |-> DecayedT.name, bits |-> bits]

\* the messages of the two std::runtime_error the store throws
KeyNotFoundError == "Key not found: "
TypeMismatchError == "Type mismatch in Config::get()"

\* ---------------------------------------------------------------- ConfigValue
\* ConfigValue(): the default constructor operator[] uses for a new node
DefaultConfigValue == [type_ |-> VoidType, data_ |-> NullPtr]

\* mutant: the tag is not taken from the value's type
ConfigValue_novalue(T, bits) ==
    [type_ |-> VoidType, data_ |-> MakeShared(Decay(T), bits)]

\* template<typename T> ConfigValue(T&& value)
ConfigValue(T, bits) ==
    [type_ |-> TypeIndex(Decay(T)), data_ |-> MakeShared(Decay(T), bits)]

\* mutant: no check of the tag before the cast
as_unchecked(cv, T) ==
    [kind |-> "ok", val |-> cv.data_.bits]

\* template<typename T> T ConfigValue::as() const
as(cv, T) ==
    IF cv.type_ # TypeIndex(Decay(T))
    THEN [kind |-> TypeMismatchError, val |-> -1]
    ELSE [kind |-> "ok", val |-> cv.data_.bits]

\* ---------------------------------------------------------------- unordered_map
\* the nodes of map m with the given key
Nodes(m, key) == {n \in m : n.key = key}

\* mutant: the lookup goes through operator[] and inserts a default node
find_inserting(m, key) ==
    LET m2 == IF Nodes(m, key) = {} THEN m \cup {[key |-> key, value |-> DefaultConfigValue]}
              ELSE m
    IN  [map |-> m2, it |-> Nodes(m2, key)]

\* values_.find(key) on the const map: the map as the call leaves it, and the
\* iterator (the set of the matching node, empty for end())
find(m, key) == [map |-> m, it |-> Nodes(m, key)]

\* mutant: the node is found or inserted, the assignment is lost
Subscript_noassign(m, key, cv) ==
    IF Nodes(m, key) = {} THEN m \cup {[key |-> key, value |-> DefaultConfigValue]}
    ELSE m

\* mutant: a node is added even if the key is there (multimap-like insert)
Subscript_dup(m, key, cv) ==
    m \cup {[key |-> key, value |-> cv]}

\* values_[key] = cv: operator[] finds the node or inserts one holding
\* ConfigValue(), then the move assignment overwrites type_ and data_ together
Subscript(m, key, cv) ==
    LET m2 == IF Nodes(m, key) = {} THEN m \cup {[key |-> key, value |-> DefaultConfigValue]}
              ELSE m
    IN  {IF n.key = key THEN [key |-> key, value |-> cv] ELSE n : n \in m2}

\* mutant: the whole map is cleared
erase_clear(m, key) == {}

\* mutant: erase does nothing
erase_noop(m, key) == m

\* values_.erase(key)
erase(m, key) == m \ Nodes(m, key)

\* ---------------------------------------------------------------- Config
\* what one call returns to its caller: kind is "ok" or the message of the
\* exception thrown; val the bits returned (-1: none); from tells which return
\* statement produced it
Ret(kind, val, from) == [kind |-> kind, val |-> val, from |-> from]

\* mutant: emplace instead of operator[] and assignment, an existing node stays
set_emplace(m, key, T, bits) ==
    IF Nodes(m, key) = {} THEN m \cup {[key |-> key, value |-> ConfigValue(T, bits)]}
    ELSE m

\* mutant: on an existing node only data_ is replaced, the old tag stays
set_keeptag(m, key, T, bits) ==
    IF Nodes(m, key) = {} THEN m \cup {[key |-> key, value |-> ConfigValue(T, bits)]}
    ELSE {IF n.key = key
          THEN [key |-> key,
                value |-> [type_ |-> n.value.type_, data_ |-> ConfigValue(T, bits).data_]]
          ELSE n : n \in m}

\* template<typename T> void Config::set(const std::string& key, T&& value)
set(m, key, T, bits) == Subscript(m, key, ConfigValue(T, bits))

\* mutant: a missing key yields a value-initialised T instead of an exception
get_nothrow(m, key, T) ==
    LET f == find(m, key)
    IN  IF f.it = {}
        THEN [map |-> f.map, ret |-> Ret("ok", 0, "stored")]
        ELSE [map |-> f.map,
              ret |-> LET r == as((CHOOSE n \in f.it : TRUE).value, T)
                      IN  Ret(r.kind, r.val, IF r.kind = "ok" THEN "stored" ELSE "none")]

\* template<typename T> T Config::get(const std::string& key) const
get(m, key, T) ==
    LET f == find(m, key)
    IN  IF f.it = {}
        THEN [map |-> f.map, ret |-> Ret(KeyNotFoundError, -1, "none")]
        ELSE [map |-> f.map,
              ret |-> LET r == as((CHOOSE n \in f.it : TRUE).value, T)
                      IN  Ret(r.kind, r.val, IF r.kind = "ok" THEN "stored" ELSE "none")]

\* mutant: the default also stands in for a value of another type
getOrDefault_fallback(m, key, T, defaultValue) ==
    LET f == find(m, key)
    IN  IF f.it = {}
        THEN [map |-> f.map, ret |-> Ret("ok", defaultValue, "default")]
        ELSE [map |-> f.map,
              ret |-> LET r == as((CHOOSE n \in f.it : TRUE).value, T)
                      IN  IF r.kind = "ok" THEN Ret("ok", r.val, "stored")
                          ELSE Ret("ok", defaultValue, "default")]

\* mutant: the default wins over a stored value
getOrDefault_always(m, key, T, defaultValue) ==
    LET f == find(m, key)
    IN  [map |-> f.map, ret |-> Ret("ok", defaultValue, "default")]

\* template<typename T> T Config::getOrDefault(const std::string& key,
\*                                            T&& defaultValue) const
getOrDefault(m, key, T, defaultValue) ==
    LET f == find(m, key)
    IN  IF f.it = {}
        THEN [map |-> f.map, ret |-> Ret("ok", defaultValue, "default")]
        ELSE [map |-> f.map,
              ret |-> LET r == as((CHOOSE n \in f.it : TRUE).value, T)
                      IN  Ret(r.kind, r.val, IF r.kind = "ok" THEN "stored" ELSE "none")]

\* bool Config::has(const std::string& key) const
has(m, key) ==
    LET f == find(m, key)
    IN  [map |-> f.map, found |-> f.it # {}]

\* void Config::remove(const std::string& key)
remove(m, key) == erase(m, key)

\* ---------------------------------------------------------------- state
VARIABLES
    values_,   \* Config::values_, the nodes of the map
    lastSet,   \* history of the calls: per key, the object type and the bits of
               \* the last set() not followed by a remove(); NotSet when the
               \* key was never set or was removed since
    result,    \* the call just made and what it returned
    \* -- Config at the level of object identity (two stores, one heap)
    cfg,       \* per store: its lifetime state and the nodes of its values_,
               \* each data_ being the address of a heap object
    heap,      \* per address: the object allocated there by make_shared
    nextAddr,  \* the address the next make_shared returns
    held,      \* the addresses callers hold a reference to, handed out by get
    \* -- RaiiWrapper
    wrappers,  \* per RaiiWrapper object: its lifetime state, resource_, deleter_
    deleterLog,\* the calls of deleters so far: per resource how often (capped
               \* at 2) and by which deleter, and whether one was called on null
    raiiOp,    \* the operation just made on a RaiiWrapper
    \* -- Logger, calls made one after the other
    loggers,   \* the Logger objects constructed: per object its currentLevel_
    refs,      \* per reference variable of a caller: the Logger it refers to
    output,    \* the lines written to std::cout
    lastLevel, \* history: the level of the last setLevel call by any caller
    logOp,     \* the call just made
    \* -- Logger, calls made by several threads
    thPc,      \* per thread: where it is in its call of setLevel or log
    thArg,     \* per thread: the level argument of its call
    thSeen,    \* per thread: the value its log call read from currentLevel_
    thCalls,   \* per thread: the calls it has started
    curLevel,  \* currentLevel_ of the singleton
    levelsSet, \* history: the levels currentLevel_ was given by a setLevel or
               \* by its initializer
    stream,    \* std::cout: the insertions made, each with its thread
    \* -- Quest, QuestManager and main
    quests_,      \* QuestManager::quests_, the quests in the order added
    currentQuest_,\* QuestManager::currentQuest_
    questOp,      \* the call just made on the manager, and the position in
                  \* quests_ (from 1) of the quest it started, 0 if none
    mainPc,       \* where main is: "add", "loop", "after", "done"; "off" when
                  \* main is not running
    congratulated,\* printCongratulations() was called
    \* -- Config, calls made by two threads on one store
    store,     \* values_ of the shared store; set changes it in three steps
    base,      \* history: values_ when the threads were started
    cPc,       \* per thread: where it is in its call
    cOp,       \* per thread: its call, and whether the caller locks around it
    cRet,      \* per thread: what its call returned
    mutex,     \* the callers' lock: 0 when free, else the thread holding it
    raced,     \* two conflicting accesses to one node overlapped
    \* -- a quest with a quiz, while its start() runs
    quizPc,    \* "idle": no start() runs; "ask": a quiz question is pending;
               \* "retry": the question whether to try again is pending
    replies,   \* what askYesNo returned for the questions of this run of the quiz
    correct,   \* the local variable correct of start()
    attempts   \* the runs of the quiz in this start(), this one included

configVars == <<values_, lastSet, result>>
ownVars == <<cfg, heap, nextAddr, held>>
raiiVars == <<wrappers, deleterLog, raiiOp>>
loggerVars == <<loggers, refs, output, lastLevel, logOp>>
threadVars == <<thPc, thArg, thSeen, thCalls, curLevel, levelsSet, stream>>
questVars == <<quests_, currentQuest_, questOp, mainPc, congratulated>>
concVars == <<store, base, cPc, cOp, cRet, mutex, raced>>
quizVars == <<quizPc, replies, correct, attempts>>

vars == <<configVars, ownVars, raiiVars, loggerVars, threadVars, questVars,
          concVars, quizVars>>

NotSet == [type |-> "none", bits |-> -1]
NoType == [name |-> "none", const |-> FALSE, ref |-> FALSE]

\* the record of one call: op, its key, its template argument, the value
\* passed (set: the value, getOrDefault: the default), and what came back
\* (found: the bool of has(); for remove(), whether erase() removed a node),
\* and prev, the object type of the value the key held by the calls made
\* before this one ("none": the key was not set)
Call(op, key, T, arg, ret, found, prev) ==
    [op |-> op, key |-> key, T |-> T, arg |-> arg,
     kind |-> ret.kind, val |-> ret.val, from |-> ret.from, found |-> found,
     prev |-> prev]

\* core::Config config;  -- an empty map, nothing called yet
ConfigInit ==
    /\ values_ = {}
    /\ lastSet = [k \in Keys |-> NotSet]
    /\ result = Call("none", 0, NoType, -1, Ret("ok", -1, "none"), FALSE, "none")

\* the two Config objects of the identity-level model: a is constructed, b is
\* the one that will be copy-constructed from a
Stores == {"a", "b"}

\* an address make_shared has not returned yet
NoObject == [live |-> FALSE, dyn |-> "null", bits |-> -1]

\* core::Config a;  -- empty, nothing allocated, no reference handed out
OwnInit ==
    /\ cfg = [s \in Stores |->
                [life |-> IF s = "a" THEN "alive" ELSE "none", map |-> {}]]
    /\ heap = [p \in Addrs |-> NoObject]
    /\ nextAddr = 1
    /\ held = {}

\* nullptr, and the state of a moved-from deleter that kept no target
Null == 0

\* a RaiiWrapper not constructed yet
NoWrapper == [life |-> "none", resource_ |-> Null, deleter_ |-> Null]

\* no RaiiWrapper constructed, no deleter called
RaiiInit ==
    /\ wrappers = [w \in Wrappers |-> NoWrapper]
    /\ deleterLog = [n |-> [r \in Resources |-> 0],
                     by |-> [r \in Resources |-> Null],
                     null |-> FALSE]
    /\ raiiOp = [op |-> "none", w |-> Null, o |-> Null]

\* enum class LogLevel { Debug, Info, Warning, Error }
Debug == 0
Info == 1
Warning == 2
Error == 3
LogLevels == {Debug, Info, Warning, Error}

\* LogLevel currentLevel_ = LogLevel::Info
DefaultLevel == Info

\* the static Logger of getInstance() before the first call reaches it
NoLogger == -1

\* no Logger constructed, no reference taken, nothing written
LoggerInit ==
    /\ loggers = [i \in Refs |-> NoLogger]
    /\ refs = [c \in Refs |-> Null]
    /\ output = <<>>
    /\ lastLevel = DefaultLevel
    /\ logOp = [op |-> "none", c |-> Null, level |-> NoLogger]

\* the singleton constructed, every thread outside a call
ThreadInit ==
    /\ thPc = [t \in Threads |-> "idle"]
    /\ thArg = [t \in Threads |-> DefaultLevel]
    /\ thSeen = [t \in Threads |-> DefaultLevel]
    /\ thCalls = [t \in Threads |-> 0]
    /\ curLevel = DefaultLevel
    /\ levelsSet = {DefaultLevel}
    /\ stream = <<>>

\* a QuestManager as constructed: no quest, currentQuest_ = 0
QuestInit ==
    /\ quests_ = <<>>
    /\ currentQuest_ = 0
    /\ questOp = [op |-> "none", started |-> 0]
    /\ mainPc = "off"
    /\ congratulated = FALSE

\* the two threads that call into one store
Callers == {1, 2}

\* the template argument of a call that has none
NoArg == [name |-> VoidType, const |-> FALSE, ref |-> FALSE]

\* no call, and the result of a call not yet returned
NoCall == [call |-> [op |-> "none", key |-> 0, T |-> NoArg, bits |-> -1],
           lock |-> FALSE]
NoRet == Ret("none", -1, "none")

\* Config config; shared by reference with two threads not yet calling
ConcInit ==
    /\ store = {}
    /\ base = {}
    /\ cPc = [t \in Callers |-> "idle"]
    /\ cOp = [t \in Callers |-> NoCall]
    /\ cRet = [t \in Callers |-> NoRet]
    /\ mutex = 0
    /\ raced = FALSE

\* no start() of a quest with a quiz is running
QuizInit ==
    /\ quizPc = "idle"
    /\ replies = <<>>
    /\ correct = 0
    /\ attempts = 0

\* every object as its constructor leaves it
Init ==
    /\ ConfigInit
    /\ OwnInit
    /\ RaiiInit
    /\ LoggerInit
    /\ ThreadInit
    /\ QuestInit
    /\ ConcInit
    /\ QuizInit

\* the variables the calls on the single Config leave alone
notConfig ==
    <<ownVars, raiiVars, loggerVars, threadVars, questVars, concVars, quizVars>>
notOwn ==
    <<configVars, raiiVars, loggerVars, threadVars, questVars, concVars, quizVars>>
notRaii ==
    <<configVars, ownVars, loggerVars, threadVars, questVars, concVars, quizVars>>
notLogger ==
    <<configVars, ownVars, raiiVars, threadVars, questVars, concVars, quizVars>>
notThread ==
    <<configVars, ownVars, raiiVars, loggerVars, questVars, concVars, quizVars>>
notQuest ==
    <<configVars, ownVars, raiiVars, loggerVars, threadVars, concVars, quizVars>>
\* everything but the quest manager and the quiz
notQuiz == <<configVars, ownVars, raiiVars, loggerVars, threadVars, concVars>>
notConc ==
    <<configVars, ownVars, raiiVars, loggerVars, threadVars, questVars, quizVars>>

\* config.set(key, value) with a value of object type U, passed as an
\* expression for which T is deduced as U (rvalue) or const U& (const lvalue)
Set(key, T, bits) ==
    /\ values_' = set(values_, key, T, bits)
    /\ lastSet' = [lastSet EXCEPT ![key] = [type |-> T.name, bits |-> bits]]
    /\ result' = Call("set", key, T, bits, Ret("ok", -1, "none"), FALSE,
                      lastSet[key].type)
    /\ UNCHANGED notConfig

\* config.get<T>(key)
Get(key, T) ==
    LET g == get(values_, key, T)
    IN  /\ values_' = g.map
        /\ result' = Call("get", key, T, -1, g.ret, FALSE, lastSet[key].type)
        /\ UNCHANGED <<lastSet, notConfig>>

\* config.getOrDefault(key, defaultValue), T deduced from defaultValue
GetOrDefault(key, T, defaultValue) ==
    LET g == getOrDefault(values_, key, T, defaultValue)
    IN  /\ values_' = g.map
        /\ result' = Call("getOrDefault", key, T, defaultValue, g.ret, FALSE,
                          lastSet[key].type)
        /\ UNCHANGED <<lastSet, notConfig>>

\* config.has(key)
Has(key) ==
    LET h == has(values_, key)
    IN  /\ values_' = h.map
        /\ result' = Call("has", key, NoType, -1, Ret("ok", -1, "none"), h.found,
                          lastSet[key].type)
        /\ UNCHANGED <<lastSet, notConfig>>

\* config.remove(key)
Remove(key) ==
    /\ values_' = remove(values_, key)
    /\ lastSet' = [lastSet EXCEPT ![key] = NotSet]
    /\ result' = Call("remove", key, NoType, -1, Ret("ok", -1, "none"),
                      remove(values_, key) # values_, lastSet[key].type)
    /\ UNCHANGED notConfig

Next ==
    \/ \E key \in Keys, T \in TemplateArgs, bits \in Bits : Set(key, T, bits)
    \/ \E key \in Keys, T \in TemplateArgs : Get(key, T)
    \/ \E key \in Keys, T \in TemplateArgs, d \in Bits : GetOrDefault(key, T, d)
    \/ \E key \in Keys : Has(key)
    \/ \E key \in Keys : Remove(key)

Spec == Init /\ [][Next]_vars

\* ================================================================ ownership
\* Config at the level of object identity: data_ is a std::shared_ptr<void>,
\* so a node holds the address of its heap object; an object lives as long
\* as some shared_ptr of a live store points to it.

\* the addresses the shared_ptrs of the live stores in c point to
Owned(c) == {n.data_ : n \in UNION {c[s].map : s \in {x \in Stores : c[x].life = "alive"}}}

\* ~shared_ptr: an object no shared_ptr points to any more is deleted
Release(h, c) ==
    [p \in Addrs |-> IF p \in Owned(c) THEN h[p] ELSE [h[p] EXCEPT !.live = FALSE]]

\* a.set(key, value): values_[key] = ConfigValue(value), with the object
\* make_shared allocates at address p
OwnSetMap(m, key, T, p) ==
    {n \in m : n.key # key}
        \cup {[key |-> key, type_ |-> TypeIndex(Decay(T)), data_ |-> p]}

\* Config b = a: the implicit copy constructor copies values_, and with it
\* type_ and the shared_ptr data_ of every ConfigValue (no new object is made)
CopyMap(m) == m

\* s.set(key, value)
OwnSet(s, key, T, bits) ==
    /\ cfg[s].life = "alive"
    /\ nextAddr <= MaxAddr
    /\ LET c2 == [cfg EXCEPT ![s].map = OwnSetMap(cfg[s].map, key, T, nextAddr)]
           h2 == [heap EXCEPT ![nextAddr] =
                     [live |-> TRUE, dyn |-> Decay(T).name, bits |-> bits]]
       IN  /\ cfg' = c2
           /\ heap' = Release(h2, c2)
    /\ nextAddr' = nextAddr + 1
    /\ UNCHANGED <<held, notOwn>>

\* s.remove(key)
OwnRemove(s, key) ==
    /\ cfg[s].life = "alive"
    /\ LET c2 == [cfg EXCEPT ![s].map = {n \in cfg[s].map : n.key # key}]
       IN  /\ cfg' = c2
           /\ heap' = Release(heap, c2)
    /\ UNCHANGED <<nextAddr, held, notOwn>>

\* s.get<T>(key) on a present key of the requested type: as<T>() returns
\* *static_cast<DecayedT*>(data_.get()) as a T, which is a copy when T is an
\* object type and a reference to the stored object when T is a reference
OwnGet(s, key, T) ==
    /\ cfg[s].life = "alive"
    /\ \E n \in cfg[s].map :
          /\ n.key = key
          /\ n.type_ = TypeIndex(Decay(T))
          /\ held' = IF T.ref THEN held \cup {n.data_} ELSE held
    /\ UNCHANGED <<cfg, heap, nextAddr, notOwn>>

\* core::Config b = a;
OwnCopy ==
    /\ cfg["a"].life = "alive"
    /\ cfg["b"].life = "none"
    /\ cfg' = [cfg EXCEPT !["b"] = [life |-> "alive", map |-> CopyMap(cfg["a"].map)]]
    /\ UNCHANGED <<heap, nextAddr, held, notOwn>>

\* the end of the lifetime of store s: ~Config destroys values_
OwnDestroy(s) ==
    /\ cfg[s].life = "alive"
    /\ LET c2 == [cfg EXCEPT ![s] = [life |-> "destroyed", map |-> {}]]
       IN  /\ cfg' = c2
           /\ heap' = Release(heap, c2)
    /\ UNCHANGED <<nextAddr, held, notOwn>>

OwnNext ==
    \/ \E s \in Stores, key \in Keys, T \in TemplateArgs, bits \in Bits :
          OwnSet(s, key, T, bits)
    \/ \E s \in Stores, key \in Keys : OwnRemove(s, key)
    \/ \E s \in Stores, key \in Keys, T \in TemplateArgs : OwnGet(s, key, T)
    \/ OwnCopy
    \/ \E s \in Stores : OwnDestroy(s)

SpecOwn == Init /\ [][OwnNext]_vars

\* ================================================================ RaiiWrapper
\* st is the pair [ws, log]: the RaiiWrapper objects and the deleter calls.

\* deleter_(resource_), the call of deleter d on resource r
Invoke(log, d, r) ==
    IF r = Null THEN [log EXCEPT !.null = TRUE]
    ELSE [log EXCEPT !.n[r] = IF @ < 2 THEN @ + 1 ELSE 2, !.by[r] = d]

\* explicit RaiiWrapper(T resource, Deleter deleter)
Ctor(st, w, r, d) ==
    [st EXCEPT !.ws[w] = [life |-> "alive", resource_ |-> r, deleter_ |-> d]]

\* mutant: the destructor calls the deleter without testing resource_
Dtor_unguarded(st, w) ==
    [ws |-> [st.ws EXCEPT ![w].life = "destroyed"],
     log |-> Invoke(st.log, st.ws[w].deleter_, st.ws[w].resource_)]

\* ~RaiiWrapper()
Dtor(st, w) ==
    [ws |-> [st.ws EXCEPT ![w].life = "destroyed"],
     log |-> IF st.ws[w].resource_ # Null
             THEN Invoke(st.log, st.ws[w].deleter_, st.ws[w].resource_)
             ELSE st.log]

\* mutant: the source keeps its resource_
MoveCtor_keep(st, w, o, moved) ==
    [st EXCEPT !.ws[w] = [life |-> "alive", resource_ |-> st.ws[o].resource_,
                          deleter_ |-> st.ws[o].deleter_],
               !.ws[o].deleter_ = moved]

\* mutant: the source is reset(), which calls the deleter
MoveCtor_reset(st, w, o, moved) ==
    [ws |-> [st.ws EXCEPT ![w] = [life |-> "alive", resource_ |-> st.ws[o].resource_,
                                  deleter_ |-> st.ws[o].deleter_],
                          ![o].resource_ = Null],
     log |-> IF st.ws[o].resource_ # Null
             THEN Invoke(st.log, st.ws[o].deleter_, st.ws[o].resource_)
             ELSE st.log]

\* RaiiWrapper(RaiiWrapper&& other) noexcept; moved is what std::move leaves
\* in other.deleter_
MoveCtor(st, w, o, moved) ==
    [st EXCEPT !.ws[w] = [life |-> "alive", resource_ |-> st.ws[o].resource_,
                          deleter_ |-> st.ws[o].deleter_],
               !.ws[o].resource_ = Null,
               !.ws[o].deleter_ = moved]

\* mutant: the old resource is released after deleter_ was replaced
MoveAssign_late(st, w, o, moved) ==
    IF w # o
    THEN [ws |-> [st.ws EXCEPT ![w].resource_ = st.ws[o].resource_,
                               ![w].deleter_ = st.ws[o].deleter_,
                               ![o].resource_ = Null,
                               ![o].deleter_ = moved],
          log |-> IF st.ws[w].resource_ # Null
                  THEN Invoke(st.log, st.ws[o].deleter_, st.ws[w].resource_)
                  ELSE st.log]
    ELSE st

\* RaiiWrapper& operator=(RaiiWrapper&& other) noexcept
MoveAssign(st, w, o, moved) ==
    IF w # o
    THEN [ws |-> [st.ws EXCEPT ![w].resource_ = st.ws[o].resource_,
                               ![w].deleter_ = st.ws[o].deleter_,
                               ![o].resource_ = Null,
                               ![o].deleter_ = moved],
          log |-> IF st.ws[w].resource_ # Null
                  THEN Invoke(st.log, st.ws[w].deleter_, st.ws[w].resource_)
                  ELSE st.log]
    ELSE st

\* T get() const
RaiiGet(ws, w) == ws[w].resource_

\* explicit operator bool() const
RaiiBool(ws, w) == ws[w].resource_ # Null

\* mutant: resource_ is not set to nullptr
reset_keep(st, w) ==
    IF st.ws[w].resource_ # Null
    THEN [ws |-> st.ws,
          log |-> Invoke(st.log, st.ws[w].deleter_, st.ws[w].resource_)]
    ELSE st

\* void reset()
reset(st, w) ==
    IF st.ws[w].resource_ # Null
    THEN [ws |-> [st.ws EXCEPT ![w].resource_ = Null],
          log |-> Invoke(st.log, st.ws[w].deleter_, st.ws[w].resource_)]
    ELSE st

\* the resources some constructor was given
Wrapped == {r \in Resources :
               deleterLog.n[r] > 0 \/ \E w \in Wrappers : wrappers[w].resource_ = r}

RaiiState == [ws |-> wrappers, log |-> deleterLog]

\* the state st becomes the state of the model, after operation op on w (and o)
RaiiStep(st, op, w, o) ==
    /\ wrappers' = st.ws
    /\ deleterLog' = st.log
    /\ raiiOp' = [op |-> op, w |-> w, o |-> o]
    /\ UNCHANGED notRaii

\* auto w = makeRaiiWrapper(r, deleter): r is null or a resource no wrapper
\* was given before; the deleter passed is named after the wrapper
RaiiConstruct(w, r) ==
    /\ wrappers[w].life = "none"
    /\ r \in (Resources \ Wrapped) \cup {Null}
    /\ RaiiStep(Ctor(RaiiState, w, r, w), "construct", w, Null)

\* auto w = std::move(o); a moved-from deleter keeps its target (a lambda, a
\* function pointer) or loses it (a std::function)
RaiiMoveConstruct(w, o) ==
    /\ wrappers[w].life = "none"
    /\ wrappers[o].life = "alive"
    /\ \E moved \in {wrappers[o].deleter_, Null} :
          RaiiStep(MoveCtor(RaiiState, w, o, moved), "moveConstruct", w, o)

\* w = std::move(o)
RaiiMoveAssign(w, o) ==
    /\ wrappers[w].life = "alive"
    /\ wrappers[o].life = "alive"
    /\ \E moved \in {wrappers[o].deleter_, Null} :
          RaiiStep(MoveAssign(RaiiState, w, o, moved), "moveAssign", w, o)

\* w.reset()
RaiiReset(w) ==
    /\ wrappers[w].life = "alive"
    /\ RaiiStep(reset(RaiiState, w), "reset", w, Null)

\* w goes out of scope
RaiiDestroy(w) ==
    /\ wrappers[w].life = "alive"
    /\ RaiiStep(Dtor(RaiiState, w), "destroy", w, Null)

RaiiNext ==
    \/ \E w \in Wrappers, r \in Resources \cup {Null} : RaiiConstruct(w, r)
    \/ \E w, o \in Wrappers : RaiiMoveConstruct(w, o)
    \/ \E w, o \in Wrappers : RaiiMoveAssign(w, o)
    \/ \E w \in Wrappers : RaiiReset(w)
    \/ \E w \in Wrappers : RaiiDestroy(w)

SpecRaii == Init /\ [][RaiiNext]_vars

\* ================================================================ Logger
\* mutant: the instance is a plain local, every call constructs another Logger
getInstance_fresh(ls) ==
    LET free == {i \in Refs : ls[i] = NoLogger}
        id == IF free = {} THEN 1 ELSE CHOOSE i \in free : \A j \in free : i <= j
    IN  [loggers |-> [ls EXCEPT ![id] = DefaultLevel], instance |-> id]

\* static Logger& Logger::getInstance(): the function-local static is
\* constructed by the first call, every call returns a reference to it
getInstance(ls) ==
    [loggers |-> IF ls[1] = NoLogger THEN [ls EXCEPT ![1] = DefaultLevel] ELSE ls,
     instance |-> 1]

\* void Logger::setLevel(LogLevel level)
setLevel(ls, this, level) == [ls EXCEPT ![this] = level]

\* the switch of Logger::log: levelStr for a level
LevelStr(level) ==
    CASE level = Debug -> "DEBUG"
      [] level = Info -> "INFO"
      [] level = Warning -> "WARN"
      [] level = Error -> "ERROR"

\* mutant: a message at the current level is dropped too
log_le(ls, out, this, level, format) ==
    IF level <= ls[this] THEN out
    ELSE Append(out, [levelStr |-> LevelStr(level), format |-> format])

\* void Logger::log(LogLevel level, const std::string& format, Args&&...):
\* the lines of std::cout after the call
log(ls, out, this, level, format) ==
    IF level < ls[this] THEN out
    ELSE Append(out, [levelStr |-> LevelStr(level), format |-> format])

\* auto& c = core::Logger::getInstance();
LoggerGetInstance(c) ==
    LET g == getInstance(loggers)
    IN  /\ loggers' = g.loggers
        /\ refs' = [refs EXCEPT ![c] = g.instance]
        /\ logOp' = [op |-> "getInstance", c |-> c, level |-> NoLogger]
        /\ UNCHANGED <<output, lastLevel, notLogger>>

\* c.setLevel(level)
LoggerSetLevel(c, level) ==
    /\ refs[c] # Null
    /\ loggers' = setLevel(loggers, refs[c], level)
    /\ lastLevel' = level
    /\ logOp' = [op |-> "setLevel", c |-> c, level |-> level]
    /\ UNCHANGED <<refs, output, notLogger>>

\* c.debug(msg), c.info(msg), c.warning(msg) or c.error(msg): each forwards
\* to log with its level
LoggerLog(c, level) ==
    /\ refs[c] # Null
    /\ Len(output) < MaxLog
    /\ output' = log(loggers, output, refs[c], level, "msg")
    /\ logOp' = [op |-> "log", c |-> c, level |-> level]
    /\ UNCHANGED <<loggers, refs, lastLevel, notLogger>>

LoggerNext ==
    \/ \E c \in Refs : LoggerGetInstance(c)
    \/ \E c \in Refs, level \in LogLevels : LoggerSetLevel(c, level)
    \/ \E c \in Refs, level \in LogLevels : LoggerLog(c, level)

SpecLogger == Init /\ [][LoggerNext]_vars

\* ================================================================ Logger, threads
\* Logger has no mutex: setLevel stores currentLevel_, log loads it and then
\* makes its chain of operator<< insertions, each a separate call on
\* std::cout.  The chain is modelled by two insertions: "head" (everything up
\* to ": ") and "tail" (format << std::endl).

\* thread t is about to access currentLevel_
AtLevel(t) == thPc[t] \in {"load", "store"}

\* the access of t to currentLevel_ is in a data race: another thread is at
\* an access too, and one of the two is a store
Racing(t) ==
    \E u \in Threads \ {t} : AtLevel(u) /\ "store" \in {thPc[t], thPc[u]}

\* t calls debug, info, warning or error
ThreadCallLog(t, level) ==
    /\ thPc[t] = "idle"
    /\ thCalls[t] < MaxCall
    /\ thPc' = [thPc EXCEPT ![t] = "load"]
    /\ thArg' = [thArg EXCEPT ![t] = level]
    /\ thCalls' = [thCalls EXCEPT ![t] = @ + 1]
    /\ UNCHANGED <<thSeen, curLevel, levelsSet, stream, notThread>>

\* if (level < currentLevel_) return;  -- a load in a data race is undefined
\* behaviour and may yield any level
ThreadLoadLevel(t) ==
    /\ thPc[t] = "load"
    /\ \E v \in (IF Racing(t) THEN LogLevels ELSE {curLevel}) :
          /\ thSeen' = [thSeen EXCEPT ![t] = v]
          /\ thPc' = [thPc EXCEPT ![t] = IF thArg[t] < v THEN "idle" ELSE "head"]
    /\ UNCHANGED <<thArg, thCalls, curLevel, levelsSet, stream, notThread>>

\* std::cout << "[" << ... << levelStr << ": " and then << format << std::endl
ThreadInsert(t) ==
    /\ thPc[t] \in {"head", "tail"}
    /\ stream' = Append(stream, [t |-> t, part |-> thPc[t], levelStr |-> LevelStr(thArg[t])])
    /\ thPc' = [thPc EXCEPT ![t] = IF thPc[t] = "head" THEN "tail" ELSE "idle"]
    /\ UNCHANGED <<thArg, thSeen, thCalls, curLevel, levelsSet, notThread>>

\* t calls setLevel(level)
ThreadCallSetLevel(t, level) ==
    /\ thPc[t] = "idle"
    /\ thCalls[t] < MaxCall
    /\ thPc' = [thPc EXCEPT ![t] = "store"]
    /\ thArg' = [thArg EXCEPT ![t] = level]
    /\ thCalls' = [thCalls EXCEPT ![t] = @ + 1]
    /\ UNCHANGED <<thSeen, curLevel, levelsSet, stream, notThread>>

\* currentLevel_ = level;  -- a store racing with another store is undefined
\* behaviour and may leave any level
ThreadStoreLevel(t) ==
    /\ thPc[t] = "store"
    /\ \E v \in (IF \E u \in Threads \ {t} : thPc[u] = "store"
                  THEN LogLevels ELSE {thArg[t]}) :
          curLevel' = v
    /\ levelsSet' = levelsSet \cup {thArg[t]}
    /\ thPc' = [thPc EXCEPT ![t] = "idle"]
    /\ UNCHANGED <<thArg, thSeen, thCalls, stream, notThread>>

ThreadNext ==
    \/ \E t \in Threads, level \in LogLevels : ThreadCallLog(t, level)
    \/ \E t \in Threads : ThreadLoadLevel(t)
    \/ \E t \in Threads : ThreadInsert(t)
    \/ \E t \in Threads, level \in LogLevels : ThreadCallSetLevel(t, level)
    \/ \E t \in Threads : ThreadStoreLevel(t)

SpecThreads == Init /\ [][ThreadNext]_vars

\* ================================================================ Quest
\* A quest is [name, level, kind, starts, completed_, base, announced]: kind "ask" is
\* a quest of quests.hpp, which sets its own completed_ when the user passes
\* it; "mockPass" and "mockFail" are the MockQuest of the tests with
\* shouldComplete_ true and false (started_ is starts > 0).  base is
\* Quest::completed_, announced counts the "Quest Completed" messages.

\* a quest as its constructor leaves it
NewQuest(name, level, kind) ==
    [name |-> name, level |-> level, kind |-> kind, starts |-> 0,
     completed_ |-> FALSE, base |-> FALSE, announced |-> 0]

\* bool isCompleted() const override
isCompleted(q) ==
    CASE q.kind = "mockPass" -> q.starts > 0
      [] q.kind = "mockFail" -> FALSE
      [] OTHER -> q.completed_

\* mutant: the message is printed, the flag of the base class is not set
markCompleted_noflag(q) == [q EXCEPT !.announced = @ + 1]

\* void Quest::markCompleted()
markCompleted(q) == [q EXCEPT !.base = TRUE, !.announced = @ + 1]

\* void start() override; pass tells whether the user ends this run of an
\* "ask" quest with a passing answer
start(q, pass) ==
    LET q1 == [q EXCEPT !.starts = @ + 1]
    IN  CASE q.kind = "mockPass" -> markCompleted(q1)
          [] q.kind = "mockFail" -> q1
          [] OTHER -> IF pass THEN markCompleted([q1 EXCEPT !.completed_ = TRUE])
                      ELSE q1

\* void QuestManager::addQuest(std::unique_ptr<Quest> quest)
addQuest(qs, quest) == Append(qs, quest)

\* mutant: the manager moves on whether the quest was completed or not
startNextQuest_always(qs, cur, pass) ==
    IF cur < Len(qs)
    THEN [quests |-> [qs EXCEPT ![cur + 1] = start(qs[cur + 1], pass)],
          cur |-> cur + 1, started |-> cur + 1]
    ELSE [quests |-> qs, cur |-> cur, started |-> 0]

\* void QuestManager::startNextQuest(); quests_[currentQuest_] is the element
\* at position currentQuest_ + 1 of the sequence
startNextQuest(qs, cur, pass) ==
    IF cur < Len(qs)
    THEN LET quest == start(qs[cur + 1], pass)
         IN  [quests |-> [qs EXCEPT ![cur + 1] = quest],
              cur |-> IF isCompleted(quest) THEN cur + 1 ELSE cur,
              started |-> cur + 1]
    ELSE [quests |-> qs, cur |-> cur, started |-> 0]

\* void Quest::showProgress() const: the status it prints
questShowProgress(q) == IF q.base THEN "Completed" ELSE "In Progress"

\* mutant: the position of the current quest, counted from 1, is shown
showProgress_index(qs, cur) ==
    [status |-> [i \in 1..Len(qs) |-> questShowProgress(qs[i])],
     c |-> IF cur < Len(qs) THEN cur + 1 ELSE cur, n |-> Len(qs)]

\* void QuestManager::showProgress() const: the status line of every quest
\* and the c/n of "Overall Progress"
showProgress(qs, cur) ==
    [status |-> [i \in 1..Len(qs) |-> questShowProgress(qs[i])],
     c |-> cur, n |-> Len(qs)]

\* mutant: > for >=
allQuestsCompleted_gt(qs, cur) == cur > Len(qs)

\* bool QuestManager::allQuestsCompleted() const
allQuestsCompleted(qs, cur) == cur >= Len(qs)

\* manager.addQuest(std::make_unique<MockQuest>(...)) or a quest of quests.hpp
QuestAdd(kind) ==
    /\ mainPc = "off"
    /\ Len(quests_) < MaxQuest
    /\ quests_' = addQuest(quests_, NewQuest("MockQuest", 0, kind))
    /\ questOp' = [op |-> "addQuest", started |-> 0]
    /\ UNCHANGED <<currentQuest_, mainPc, congratulated, notQuest>>

\* the quest the next startNextQuest starts was started MaxStart times
StartsExhausted ==
    /\ currentQuest_ < Len(quests_)
    /\ quests_[currentQuest_ + 1].starts >= MaxStart

\* manager.startNextQuest()
QuestStartNext(pass) ==
    /\ mainPc = "off"
    /\ ~StartsExhausted
    /\ LET r == startNextQuest(quests_, currentQuest_, pass)
       IN  /\ quests_' = r.quests
           /\ currentQuest_' = r.cur
           /\ questOp' = [op |-> "startNextQuest", started |-> r.started]
    /\ UNCHANGED <<mainPc, congratulated, notQuest>>

QuestNext ==
    \/ \E kind \in {"mockPass", "mockFail", "ask"} : QuestAdd(kind)
    \/ \E pass \in BOOLEAN : QuestStartNext(pass)

SpecQuest == Init /\ [][QuestNext]_vars

\* ================================================================= main
\* the quests main adds, in the order of its addQuest calls, each with the
\* level its constructor passes to Quest
MainQuests ==
    << [name |-> "BasicsQuest", level |-> 0],
       [name |-> "MemoryQuest", level |-> 1],
       [name |-> "OOPQuest", level |-> 2],
       [name |-> "TemplatesQuest", level |-> 3],
       [name |-> "STLQuest", level |-> 4],
       [name |-> "ConcurrencyQuest", level |-> 5] >>

\* main is entered: printWelcome(); tutorial::QuestManager questManager;
MainStart ==
    /\ mainPc = "off"
    /\ mainPc' = "add"
    /\ UNCHANGED <<quests_, currentQuest_, questOp, congratulated, notQuest>>

\* questManager.addQuest(std::make_unique<tutorial::...Quest>());
MainAddQuest ==
    /\ mainPc = "add"
    /\ LET q == MainQuests[Len(quests_) + 1]
       IN  quests_' = addQuest(quests_, NewQuest(q.name, q.level, "ask"))
    /\ mainPc' = IF Len(quests_') = Len(MainQuests) THEN "loop" ELSE "add"
    /\ questOp' = [op |-> "addQuest", started |-> 0]
    /\ UNCHANGED <<currentQuest_, congratulated, notQuest>>

\* one turn of the loop: the user is asked, and on yes the next quest is
\* started and the user passes it or not; on no the loop is left
MainIterate(yes, pass) ==
    /\ mainPc = "loop"
    /\ ~allQuestsCompleted(quests_, currentQuest_)
    /\ IF yes
       THEN /\ ~StartsExhausted
            /\ LET r == startNextQuest(quests_, currentQuest_, pass)
               IN  /\ quests_' = r.quests
                   /\ currentQuest_' = r.cur
                   /\ questOp' = [op |-> "startNextQuest", started |-> r.started]
            /\ UNCHANGED mainPc
       ELSE /\ mainPc' = "after"
            /\ questOp' = [op |-> "break", started |-> 0]
            /\ UNCHANGED <<quests_, currentQuest_>>
    /\ UNCHANGED <<congratulated, notQuest>>

\* while (!questManager.allQuestsCompleted()) ends
MainLoopEnd ==
    /\ mainPc = "loop"
    /\ allQuestsCompleted(quests_, currentQuest_)
    /\ mainPc' = "after"
    /\ questOp' = [op |-> "end", started |-> 0]
    /\ UNCHANGED <<quests_, currentQuest_, congratulated, notQuest>>

\* mutant: the congratulations are printed whatever the state of the quests
MainFinish_always ==
    /\ mainPc = "after"
    /\ congratulated' = TRUE
    /\ mainPc' = "done"
    /\ questOp' = [op |-> "return", started |-> 0]
    /\ UNCHANGED <<quests_, currentQuest_, notQuest>>

\* if (questManager.allQuestsCompleted()) printCongratulations();
MainFinish ==
    /\ mainPc = "after"
    /\ congratulated' = allQuestsCompleted(quests_, currentQuest_)
    /\ mainPc' = "done"
    /\ questOp' = [op |-> "return", started |-> 0]
    /\ UNCHANGED <<quests_, currentQuest_, notQuest>>

MainNext ==
    \/ MainStart
    \/ MainAddQuest
    \/ \E yes \in BOOLEAN, pass \in BOOLEAN : MainIterate(yes, pass)
    \/ MainLoopEnd
    \/ MainFinish

SpecMain == Init /\ [][MainNext]_vars

\* ================================================================= quiz
\* The quests with a quiz (BasicsQuest, MemoryQuest, OOPQuest) started by a
\* QuestManager.  start() asks seven questions, each through askYesNo, and
\* either completes the quest or asks whether to try again, in which case it
\* calls itself and returns when that call returns.  While start() runs the
\* quest is quests_[currentQuest_].

\* int totalQuestions = 7, and the two thresholds on correct
TotalQuestions == 7
PerfectScore == 6
GoodEffort == 4

\* the quests with a quiz, in the order main adds them
QuizQuests ==
    << [name |-> "BasicsQuest", level |-> 0],
       [name |-> "MemoryQuest", level |-> 1],
       [name |-> "OOPQuest", level |-> 2] >>

\* per quest, for each question, the value of askYesNo in whose branch
\* correct is incremented
Expected(name) ==
    CASE name = "BasicsQuest" -> <<TRUE, TRUE, TRUE, TRUE, TRUE, TRUE, TRUE>>
      [] name = "MemoryQuest" -> <<TRUE, FALSE, TRUE, TRUE, TRUE, TRUE, TRUE>>
      [] OTHER -> <<FALSE, TRUE, TRUE, TRUE, TRUE, TRUE, FALSE>>

\* lines a user may type, as the sequence of their characters
Responses ==
    {<<>>, <<"y">>, <<"Y", "e", "s">>, <<"n">>, <<"N", "o">>, <<"o", "k">>}

\* bool TutorialHelper::askYesNo(const std::string& question), on the line read
askYesNo(response) ==
    /\ response # <<>>
    /\ (response[1] = "y" \/ response[1] = "Y")

\* mutant: every yes counts as a correct answer
question_yes(name, i, c, yes) == IF yes THEN c + 1 ELSE c

\* question i of the quiz: the value of correct after if (askYesNo(...)) ...
\* else ...
question(name, i, c, yes) ==
    IF yes
    THEN (IF Expected(name)[i] THEN c + 1 ELSE c)
    ELSE (IF Expected(name)[i] THEN c ELSE c + 1)

\* mutant: the second test is not under else
quizResults_noelse(q, c) ==
    LET q1 == IF c >= PerfectScore
              THEN markCompleted([q EXCEPT !.completed_ = TRUE]) ELSE q
    IN  IF c >= GoodEffort
        THEN markCompleted([q1 EXCEPT !.completed_ = TRUE]) ELSE q1

\* the results section of start(): if (correct >= 6) ... else if (correct >= 4)
\* ...; in the last branch the quest is left as it is
quizResults(q, c) ==
    IF c >= PerfectScore THEN markCompleted([q EXCEPT !.completed_ = TRUE])
    ELSE IF c >= GoodEffort THEN markCompleted([q EXCEPT !.completed_ = TRUE])
    ELSE q

\* questManager.addQuest(std::make_unique<tutorial::...Quest>()) for the next
\* quest with a quiz
QuizAddQuest ==
    /\ quizPc = "idle"
    /\ Len(quests_) < Len(QuizQuests)
    /\ LET q == QuizQuests[Len(quests_) + 1]
       IN  quests_' = addQuest(quests_, NewQuest(q.name, q.level, "quiz"))
    /\ questOp' = [op |-> "addQuest", started |-> 0]
    /\ UNCHANGED <<currentQuest_, mainPc, congratulated, quizVars, notQuiz>>

\* startNextQuest() up to the first question of quest->start()
QuizStartNext ==
    /\ quizPc = "idle"
    /\ currentQuest_ < Len(quests_)
    /\ ~StartsExhausted
    /\ quests_' = [quests_ EXCEPT ![currentQuest_ + 1].starts = @ + 1]
    /\ questOp' = [op |-> "startNextQuest", started |-> currentQuest_ + 1]
    /\ quizPc' = "ask"
    /\ replies' = <<>>
    /\ correct' = 0
    /\ attempts' = 1
    /\ UNCHANGED <<currentQuest_, mainPc, congratulated, notQuiz>>

\* the user answers the pending question; after the last one the results
\* section runs, and if the quest is completed start() returns and
\* startNextQuest moves on
QuizAnswer(response) ==
    /\ quizPc = "ask"
    /\ LET i == Len(replies) + 1
           quest == quests_[currentQuest_ + 1]
           yes == askYesNo(response)
           c == question(quest.name, i, correct, yes)
           q == IF i = TotalQuestions THEN quizResults(quest, c) ELSE quest
       IN  /\ replies' = Append(replies, yes)
           /\ correct' = c
           /\ quests_' = [quests_ EXCEPT ![currentQuest_ + 1] = q]
           /\ quizPc' = IF i < TotalQuestions THEN "ask"
                        ELSE IF isCompleted(q) THEN "idle" ELSE "retry"
           /\ currentQuest_' = IF i = TotalQuestions /\ isCompleted(q)
                               THEN currentQuest_ + 1 ELSE currentQuest_
    /\ UNCHANGED <<questOp, attempts, mainPc, congratulated, notQuiz>>

\* the user answers "try the quiz again?": on yes start() calls itself, on no
\* it returns and startNextQuest finds the quest not completed
QuizRetry(response) ==
    /\ quizPc = "retry"
    /\ IF askYesNo(response)
       THEN /\ attempts < MaxAttempt
            /\ quizPc' = "ask"
            /\ replies' = <<>>
            /\ correct' = 0
            /\ attempts' = attempts + 1
            /\ UNCHANGED currentQuest_
       ELSE /\ quizPc' = "idle"
            /\ currentQuest_' =
                  IF isCompleted(quests_[currentQuest_ + 1])
                  THEN currentQuest_ + 1 ELSE currentQuest_
            /\ UNCHANGED <<replies, correct, attempts>>
    /\ UNCHANGED <<quests_, questOp, mainPc, congratulated, notQuiz>>

QuizNext ==
    \/ QuizAddQuest
    \/ QuizStartNext
    \/ \E response \in Responses : QuizAnswer(response)
    \/ \E response \in Responses : QuizRetry(response)

SpecQuiz == Init /\ [][QuizNext]_vars

\* ==================================================== Config, two threads
\* Two threads call one store.  A caller either takes the lock before its call
\* and gives it back after, or calls without it.  set is three accesses to the
\* shared map: operator[] and the two member assignments of the implicit move
\* assignment of ConfigValue (data_ is declared before type_); the other calls
\* are one access.  Accesses of two threads to the node of one key that
\* overlap are a data race: the read may return what the node holds at that
\* point or anything else.

\* the template arguments the threads use
ByValue == {T \in TemplateArgs : ~T.ref}

\* the calls a thread can make
ConcCalls ==
    {[op |-> "set", key |-> k, T |-> T, bits |-> b] :
        k \in Keys, T \in ByValue, b \in Bits}
    \cup {[op |-> "get", key |-> k, T |-> T, bits |-> -1] : k \in Keys, T \in ByValue}
    \cup {[op |-> o, key |-> k, T |-> NoArg, bits |-> -1] :
              o \in {"has", "remove"}, k \in Keys}

\* what a call of return type void returns, and what a racing read may return
VoidRet == Ret("ok", -1, "void")
Undefined == Ret("undefined", -1, "none")

\* one call made with no other call in progress: the map it leaves and what
\* it returns
SeqApply(m, c) ==
    CASE c.op = "set" -> [map |-> set(m, c.key, c.T, c.bits), ret |-> VoidRet]
      [] c.op = "get" -> get(m, c.key, c.T)
      [] c.op = "has" ->
            [map |-> has(m, c.key).map,
             ret |-> Ret("ok", IF has(m, c.key).found THEN 1 ELSE 0, "has")]
      [] OTHER -> [map |-> remove(m, c.key), ret |-> VoidRet]

\* values_[key]: operator[] finds the node of key or inserts one holding
\* ConfigValue()
SubscriptNode(m, key) ==
    IF Nodes(m, key) = {}
    THEN m \cup {[key |-> key, value |-> DefaultConfigValue]}
    ELSE m

\* first half of the move assignment to the node: data_ = std::move(cv.data_);
\* a node that was erased meanwhile is not in the map any more
AssignData(m, key, cv) ==
    {IF n.key = key THEN [n EXCEPT !.value.data_ = cv.data_] ELSE n : n \in m}

\* mutant: the tag of the node is left as it was
AssignType_skip(m, key, cv) == m

\* second half of the move assignment: type_ = std::move(cv.type_)
AssignType(m, key, cv) ==
    {IF n.key = key THEN [n EXCEPT !.value.type_ = cv.type_] ELSE n : n \in m}

\* another thread is between the accesses of a set to the node of key
Overlap(t, key) ==
    \E u \in Callers \ {t} : cPc[u] \in {"node", "data"} /\ cOp[u].call.key = key

\* the node of key holds an object of another type than its tag says
Torn(m, key) ==
    \E n \in Nodes(m, key) : n.value.data_.dyn \notin {n.value.type_, "null"}

\* where a thread goes when its call has returned
Returned(t) == IF cOp[t].lock THEN "unlock" ELSE "done"

\* the store is filled by one thread before the two threads are started
ConcSetup(key, T, bits) ==
    /\ \A t \in Callers : cPc[t] = "idle"
    /\ store = {}
    /\ store' = set(store, key, T, bits)
    /\ base' = store'
    /\ UNCHANGED <<cPc, cOp, cRet, mutex, raced, notConc>>

\* a thread decides on its call and on whether it locks around it
ConcCall(t, c, lock) ==
    /\ cPc[t] = "idle"
    /\ cOp' = [cOp EXCEPT ![t] = [call |-> c, lock |-> lock]]
    /\ cPc' = [cPc EXCEPT ![t] = IF lock THEN "wait" ELSE "run"]
    /\ UNCHANGED <<store, base, cRet, mutex, raced, notConc>>

\* std::mutex::lock() by the caller
ConcLock(t) ==
    /\ cPc[t] = "wait"
    /\ mutex = 0
    /\ mutex' = t
    /\ cPc' = [cPc EXCEPT ![t] = "run"]
    /\ UNCHANGED <<store, base, cOp, cRet, raced, notConc>>

\* config.get<T>(key) or config.has(key)
ConcRead(t) ==
    /\ cPc[t] = "run"
    /\ cOp[t].call.op \in {"get", "has"}
    /\ LET c == cOp[t].call
           racing == Overlap(t, c.key) \/ (c.op = "get" /\ Torn(store, c.key))
       IN  /\ \E r \in {SeqApply(store, c).ret}
                        \cup (IF racing THEN {Undefined} ELSE {}) :
                  cRet' = [cRet EXCEPT ![t] = r]
           /\ raced' = (raced \/ racing)
    /\ cPc' = [cPc EXCEPT ![t] = Returned(t)]
    /\ UNCHANGED <<store, base, cOp, mutex, notConc>>

\* config.remove(key)
ConcRemove(t) ==
    /\ cPc[t] = "run"
    /\ cOp[t].call.op = "remove"
    /\ store' = remove(store, cOp[t].call.key)
    /\ raced' = (raced \/ Overlap(t, cOp[t].call.key))
    /\ cRet' = [cRet EXCEPT ![t] = VoidRet]
    /\ cPc' = [cPc EXCEPT ![t] = Returned(t)]
    /\ UNCHANGED <<base, cOp, mutex, notConc>>

\* config.set(key, value), first access: values_[key]
ConcSubscript(t) ==
    /\ cPc[t] = "run"
    /\ cOp[t].call.op = "set"
    /\ store' = SubscriptNode(store, cOp[t].call.key)
    /\ raced' = (raced \/ Overlap(t, cOp[t].call.key))
    /\ cPc' = [cPc EXCEPT ![t] = "node"]
    /\ UNCHANGED <<base, cOp, cRet, mutex, notConc>>

\* config.set(key, value), second access: data_ of the node
ConcAssignData(t) ==
    /\ cPc[t] = "node"
    /\ LET c == cOp[t].call
       IN  /\ store' = AssignData(store, c.key, ConfigValue(c.T, c.bits))
           /\ raced' = (raced \/ Overlap(t, c.key) \/ Nodes(store, c.key) = {})
    /\ cPc' = [cPc EXCEPT ![t] = "data"]
    /\ UNCHANGED <<base, cOp, cRet, mutex, notConc>>

\* config.set(key, value), third access: type_ of the node; set returns
ConcAssignType(t) ==
    /\ cPc[t] = "data"
    /\ LET c == cOp[t].call
       IN  /\ store' = AssignType(store, c.key, ConfigValue(c.T, c.bits))
           /\ raced' = (raced \/ Overlap(t, c.key) \/ Nodes(store, c.key) = {})
    /\ cRet' = [cRet EXCEPT ![t] = VoidRet]
    /\ cPc' = [cPc EXCEPT ![t] = Returned(t)]
    /\ UNCHANGED <<base, cOp, mutex, notConc>>

\* std::mutex::unlock() by the caller
ConcUnlock(t) ==
    /\ cPc[t] = "unlock"
    /\ mutex' = 0
    /\ cPc' = [cPc EXCEPT ![t] = "done"]
    /\ UNCHANGED <<store, base, cOp, cRet, raced, notConc>>

ConcNext ==
    \/ \E key \in Keys, T \in ByValue, bits \in Bits : ConcSetup(key, T, bits)
    \/ \E t \in Callers, c \in ConcCalls, lock \in BOOLEAN : ConcCall(t, c, lock)
    \/ \E t \in Callers :
          \/ ConcLock(t)
          \/ ConcRead(t)
          \/ ConcRemove(t)
          \/ ConcSubscript(t)
          \/ ConcAssignData(t)
          \/ ConcAssignType(t)
          \/ ConcUnlock(t)

SpecConc == Init /\ [][ConcNext]_vars

\* ================================================================ claims
\* the template arguments that name object type U
Naming(U) == {T \in TemplateArgs : T.name = U}

\* ---------------------------------------------------------------- C1
\* C1: a get<T>(k) made while the last set on k (not removed since) stored a
\* value v of type T returns normally a value equal to v, whatever was done
\* to the other keys in between.
C1_SetThenGet ==
    (result.op = "get" /\ lastSet[result.key] # NotSet
                       /\ result.T.name = lastSet[result.key].type)
        => (result.kind = "ok" /\ result.val = lastSet[result.key].bits)

\* a get<const T&> returned the non-zero value set while another key is set too
C1_Witness ==
    /\ result.op = "get" /\ result.kind = "ok" /\ result.T.ref
    /\ result.val = lastSet[result.key].bits /\ result.val > 0
    /\ \E k2 \in Keys \ {result.key} : lastSet[k2] # NotSet

\* ---------------------------------------------------------------- C2
\* C2: a get<T2>(k) on a key whose value was set with type T1, T2 naming
\* another object type than T1, throws the type mismatch error; and whenever
\* get returns normally the object read has exactly the requested type, so no
\* value comes back reinterpreted.
C2_TypeMismatch ==
    /\ (result.op = "get" /\ lastSet[result.key] # NotSet
                          /\ result.T.name # lastSet[result.key].type)
          => (result.kind = TypeMismatchError /\ result.val = -1)
    /\ (result.op = "get" /\ result.kind = "ok")
          => \A n \in Nodes(values_, result.key) :
                 n.value.data_.dyn = Decay(result.T).name

\* a get<T2> on a key holding another type threw
C2_Witness ==
    /\ result.op = "get" /\ result.kind = TypeMismatchError
    /\ lastSet[result.key].type \in ValueTypes \ {result.T.name}

\* ---------------------------------------------------------------- C3
\* C3: for every key never set, or removed since its last set, has is false
\* and get<T> throws the key-not-found error for every T.
C3_AbsentKey ==
    /\ \A k \in Keys : lastSet[k] = NotSet =>
          /\ ~has(values_, k).found
          /\ \A T \in TemplateArgs : get(values_, k, T).ret.kind = KeyNotFoundError
    /\ (result.op = "get" /\ lastSet[result.key] = NotSet)
          => result.kind = KeyNotFoundError
    /\ (result.op = "has" /\ lastSet[result.key] = NotSet) => ~result.found

\* a get threw key-not-found on a store that holds another key
C3_Witness ==
    /\ result.op = "get" /\ result.kind = KeyNotFoundError
    /\ values_ # {}

\* ---------------------------------------------------------------- C4
\* C4: getOrDefault(k, d) takes its result from the default, and then returns
\* d, exactly when has(k) is false; when has(k) is true it yields what
\* get<T>(k) yields; it never throws the key-not-found error.
C4_GetOrDefault ==
    result.op = "getOrDefault" =>
        /\ (result.from = "default") <=> ~has(values_, result.key).found
        /\ result.from = "default" => (result.kind = "ok" /\ result.val = result.arg)
        /\ has(values_, result.key).found =>
              [kind |-> result.kind, val |-> result.val, from |-> result.from]
                  = get(values_, result.key, result.T).ret
        /\ result.kind # KeyNotFoundError

\* getOrDefault returned a stored value that differs from the default passed
C4_Witness ==
    /\ result.op = "getOrDefault" /\ result.from = "stored"
    /\ result.val # result.arg

\* ---------------------------------------------------------------- C5
\* C5: getOrDefault<T>(k, d) on a key present with another type than T throws
\* the type mismatch error and does not return d.
C5_GetOrDefaultMismatch ==
    (result.op = "getOrDefault" /\ lastSet[result.key] # NotSet
                                /\ result.T.name # lastSet[result.key].type)
        => (result.kind = TypeMismatchError /\ result.from # "default"
                                            /\ result.val = -1)

\* getOrDefault threw the mismatch error on a present key
C5_Witness ==
    /\ result.op = "getOrDefault" /\ result.kind = TypeMismatchError
    /\ has(values_, result.key).found

\* ---------------------------------------------------------------- C6
\* C6: right after a set(k, v2) with v2 of type T2 on a key that held a value
\* of another type T1, get<T2>(k) returns v2 and get<T1>(k) throws the type
\* mismatch error.
C6_LastWriteWins ==
    (result.op = "set" /\ result.prev \notin {"none", result.T.name}) =>
        /\ \A T2 \in Naming(result.T.name) :
              /\ get(values_, result.key, T2).ret.kind = "ok"
              /\ get(values_, result.key, T2).ret.val = result.arg
        /\ \A T1 \in Naming(result.prev) :
              get(values_, result.key, T1).ret.kind = TypeMismatchError

\* a set replaced a value of another type
C6_Witness ==
    /\ result.op = "set"
    /\ result.prev \in ValueTypes \ {result.T.name}

\* ---------------------------------------------------------------- C7
\* C7: a remove(k) returns normally and leaves has(k) false and get<T>(k)
\* throwing key-not-found; when k was absent the store is left as it was.
C7_Remove ==
    [][result'.op = "remove" =>
          /\ result'.kind = "ok"
          /\ ~has(values_', result'.key).found
          /\ \A T \in TemplateArgs :
                get(values_', result'.key, T).ret.kind = KeyNotFoundError
          /\ ~has(values_, result'.key).found => values_' = values_]_vars

\* a remove erased a present key and left another key in the store
C7_Witness ==
    /\ result.op = "remove" /\ result.found
    /\ values_ # {}

\* ---------------------------------------------------------------- C8
\* C8: in every reachable state has(k) holds exactly for the keys set and not
\* removed since, whatever type they hold, and the map has at most one node
\* per key.
C8_Presence ==
    \A k \in Keys :
        /\ has(values_, k).found <=> lastSet[k] # NotSet
        /\ Cardinality(Nodes(values_, k)) <= 1

\* a set was repeated on a key of a store holding every key
C8_Witness ==
    /\ result.op = "set" /\ result.prev # "none"
    /\ \A k \in Keys : Cardinality(Nodes(values_, k)) = 1

\* ---------------------------------------------------------------- C9
\* C9: in every reachable state the tag of every node equals the dynamic type
\* of the object its data_ points to.
C9_TagMatchesValue ==
    \A n \in values_ : n.value.type_ = n.value.data_.dyn

\* two nodes of different types are in the map
C9_Witness ==
    \E n1, n2 \in values_ : n1.value.type_ # n2.value.type_

\* ---------------------------------------------------------------- C10
\* C10: a get, getOrDefault or has call, failed or not, leaves the map (keys,
\* values and tags) as it was.
C10_NoSideEffect ==
    [][result'.op \in {"get", "getOrDefault", "has"} =>
          (values_' = values_ /\ lastSet' = lastSet)]_vars

\* a failed get or getOrDefault on a store that is not empty
C10_Witness ==
    /\ result.op \in {"get", "getOrDefault"} /\ result.kind # "ok"
    /\ values_ # {}
    /\ ~has(values_, result.key).found

\* ---------------------------------------------------------------- C11
\* C11: every live heap object is pointed to by exactly one node of exactly
\* one live store, and no caller holds a reference to it (get returns a copy);
\* so no object is shared between stores or outlives its store.
C11_ExclusiveOwnership ==
    \A p \in Addrs : heap[p].live =>
        /\ Cardinality({s \in Stores : cfg[s].life = "alive"
                           /\ \E n \in cfg[s].map : n.data_ = p}) = 1
        /\ p \notin held

\* ---------------------------------------------------------------- C12
\* the live wrappers that hold resource r
Holders(r) == {w \in Wrappers : wrappers[w].life = "alive" /\ wrappers[w].resource_ = r}

\* C12: for every resource given to a constructor the deleter is called at
\* most once, only after the wrapper owning it was reset, overwritten or
\* destroyed (no live wrapper holds a released resource), and a resource not
\* released yet is held by exactly one live wrapper, so that it is released
\* exactly once when all wrappers are destroyed.
C12_ReleasedOnce ==
    \A r \in Wrapped :
        /\ deleterLog.n[r] <= 1
        /\ deleterLog.n[r] = 1 => Holders(r) = {}
        /\ deleterLog.n[r] = 0 => Cardinality(Holders(r)) = 1

\* every wrapper is destroyed, the last one holding a resource it did not
\* construct with, and every resource was wrapped and released once
C12_Witness ==
    /\ raiiOp.op = "destroy"
    /\ \A w \in Wrappers : wrappers[w].life = "destroyed"
    /\ \A r \in Resources : deleterLog.n[r] = 1
    /\ \E r \in Resources : deleterLog.by[r] # raiiOp.w

\* ---------------------------------------------------------------- C13
\* C13: a move construction gives the new wrapper the resource of the source,
\* leaves the source with get() null and false as bool, and calls no deleter.
C13_MoveConstruct ==
    [][raiiOp'.op = "moveConstruct" =>
          /\ RaiiGet(wrappers', raiiOp'.w) = RaiiGet(wrappers, raiiOp'.o)
          /\ RaiiGet(wrappers', raiiOp'.o) = Null
          /\ ~RaiiBool(wrappers', raiiOp'.o)
          /\ deleterLog' = deleterLog]_vars

\* a wrapper was move-constructed from one that held a resource
C13_Witness ==
    /\ raiiOp.op = "moveConstruct"
    /\ RaiiGet(wrappers, raiiOp.w) # Null
    /\ RaiiGet(wrappers, raiiOp.o) = Null
    /\ deleterLog.n[RaiiGet(wrappers, raiiOp.w)] = 0

\* ---------------------------------------------------------------- C14
\* C14: a log call at level L appends one line, tagged with L, exactly when L
\* is not below the current level of the logger (Debug < Info < Warning <
\* Error); a call below the level leaves the output and the logger unchanged.
C14_LevelFilter ==
    [][logOp'.op = "log" =>
          LET L == logOp'.level
              cur == loggers[refs[logOp'.c]]
          IN  /\ Debug < Info /\ Info < Warning /\ Warning < Error
              /\ L >= cur =>
                    output' = Append(output, [levelStr |-> LevelStr(L), format |-> "msg"])
              /\ L < cur => (output' = output /\ loggers' = loggers)]_vars

\* a warning was written while the level was Warning, after a setLevel
C14_Witness ==
    /\ logOp.op = "log" /\ logOp.level = Warning
    /\ loggers[refs[logOp.c]] = Warning
    /\ Len(output) > 0 /\ output[Len(output)].levelStr = "WARN"

\* ---------------------------------------------------------------- C15
\* C15: all references taken with getInstance() refer to one Logger, and a
\* log call through any reference is filtered by the level last set through
\* any reference.
C15_Singleton ==
    /\ \A c1, c2 \in Refs : (refs[c1] # Null /\ refs[c2] # Null) => refs[c1] = refs[c2]
    /\ \A c \in Refs : refs[c] # Null => loggers[refs[c]] = lastLevel

\* a call through one reference follows a setLevel made through another
C15_Witness ==
    /\ logOp.op = "log"
    /\ \E c \in Refs \ {logOp.c} : refs[c] # Null
    /\ lastLevel = Error /\ logOp.level = Error
    /\ Len(output) = 1

\* ---------------------------------------------------------------- C16
\* C16: with several threads in setLevel and log at once every line comes out
\* whole (the head of a line is directly followed by its own tail), every log
\* call is filtered by a level that was set, and no access to the current
\* level is in a data race.
C16_ThreadSafe ==
    /\ \A i \in 1..Len(stream) :
          (stream[i].part = "head" /\ i < Len(stream)) =>
              (stream[i+1].part = "tail" /\ stream[i+1].t = stream[i].t)
    /\ \A t \in Threads : thSeen[t] \in levelsSet
    /\ \A t \in Threads : AtLevel(t) => ~Racing(t)

\* ---------------------------------------------------------------- C17
\* C17: after any sequence of addQuest and startNextQuest calls,
\* allQuestsCompleted() is true exactly when isCompleted() is true for every
\* quest added; it is false when quests were added and none was started.
C17_AllQuestsCompleted ==
    /\ allQuestsCompleted(quests_, currentQuest_)
          <=> \A i \in 1..Len(quests_) : isCompleted(quests_[i])
    /\ (Len(quests_) > 0 /\ \A i \in 1..Len(quests_) : quests_[i].starts = 0)
          => ~allQuestsCompleted(quests_, currentQuest_)

\* every quest added was started and completed, one of them at a second start
C17_Witness ==
    /\ Len(quests_) = MaxQuest
    /\ allQuestsCompleted(quests_, currentQuest_)
    /\ \E i \in 1..Len(quests_) : quests_[i].starts = 2

\* ---------------------------------------------------------------- C20
\* the position in qs of the first quest that is not completed, Len(qs) + 1
\* when there is none
FirstNotPassed(qs) ==
    IF \A i \in 1..Len(qs) : isCompleted(qs[i]) THEN Len(qs) + 1
    ELSE CHOOSE i \in 1..Len(qs) :
             /\ ~isCompleted(qs[i])
             /\ \A j \in 1..(i - 1) : isCompleted(qs[j])

\* a step in which some quest was started
StartStep == Len(quests_') = Len(quests_) /\ quests_' # quests_

\* C20: a startNextQuest call that starts a quest starts the first quest in
\* insertion order that is not completed, and no other; the manager moves to
\* the following quest exactly when that quest reports isCompleted() after its
\* start(), and otherwise the next call starts the same quest; so a quest that
\* was started has only completed quests before it.
C20_StartsInOrder ==
    [][/\ StartStep =>
            LET first == FirstNotPassed(quests_)
            IN  /\ first <= Len(quests_)
                /\ questOp'.started = first
                /\ quests_'[first].starts = quests_[first].starts + 1
                /\ \A i \in 1..Len(quests_) : i # first => quests_'[i] = quests_[i]
                /\ currentQuest_' = IF isCompleted(quests_'[first])
                                    THEN currentQuest_ + 1 ELSE currentQuest_
                /\ FirstNotPassed(quests_') =
                       IF isCompleted(quests_'[first]) THEN first + 1 ELSE first
                /\ startNextQuest(quests_', currentQuest_', TRUE).started
                       = IF first + 1 > Len(quests_) /\ isCompleted(quests_'[first])
                         THEN 0 ELSE FirstNotPassed(quests_')
       /\ \A i \in 1..Len(quests_') :
              quests_'[i].starts > 0 =>
                  \A j \in 1..(i - 1) : isCompleted(quests_'[j])
      ]_vars

\* the first quest was completed at its second start, the second was started
\* and is not completed, the third was never started
C20_Witness ==
    /\ Len(quests_) = 3
    /\ questOp = [op |-> "startNextQuest", started |-> 2]
    /\ quests_[1].starts = 2 /\ isCompleted(quests_[1])
    /\ quests_[2].starts > 0 /\ ~isCompleted(quests_[2])
    /\ quests_[3].starts = 0
    /\ currentQuest_ = 1

\* ---------------------------------------------------------------- C18
\* the learning path of the documentation
LearningPath ==
    <<"BasicsQuest", "MemoryQuest", "OOPQuest", "STLQuest", "TemplatesQuest",
      "ConcurrencyQuest">>

\* C18: the quest main starts as the k-th quest of the tutorial is the k-th
\* quest of the documented learning path: Basics, Memory, OOP, STL, Templates,
\* Concurrency.
C18_LearningPathOrder ==
    (questOp.op = "startNextQuest" /\ questOp.started > 0)
        => quests_[questOp.started].name = LearningPath[questOp.started]

\* ---------------------------------------------------------------- C19
\* the results of the two calls, and the store they leave, are those of the
\* calls made one after the other in some order from the store the threads
\* were started with
Sequential ==
    \E first \in Callers : \E second \in Callers \ {first} :
        LET a == SeqApply(base, cOp[first].call)
            b == SeqApply(a.map, cOp[second].call)
        IN  /\ cRet[first] = a.ret
            /\ cRet[second] = b.ret
            /\ store = b.map

\* the results alone are those of some order
SequentialResults ==
    \E first \in Callers : \E second \in Callers \ {first} :
        LET a == SeqApply(base, cOp[first].call)
            b == SeqApply(a.map, cOp[second].call)
        IN  cRet[first] = a.ret /\ cRet[second] = b.ret

\* C19: when both threads made their call under the lock, no accesses
\* overlapped, and the results and the store are those of the two calls in
\* some sequential order.  (That calls made without the lock can return what
\* no order returns is the state of C19_Witness.)
C19_LockedIsSequential ==
    (\A t \in Callers : cPc[t] = "done" /\ cOp[t].lock)
        => (~raced /\ Sequential)

\* without the lock: a set and a get of the same key have returned, the get
\* found the node and threw the type mismatch though it asked for the type
\* that was set, which it does in neither order of the two calls
C19_Witness ==
    /\ \A t \in Callers : cPc[t] = "done" /\ ~cOp[t].lock
    /\ \E t \in Callers : \E u \in Callers \ {t} :
          /\ cOp[t].call.op = "set"
          /\ cOp[u].call.op = "get"
          /\ cOp[u].call.key = cOp[t].call.key
          /\ cOp[u].call.T = cOp[t].call.T
          /\ cRet[u].kind = TypeMismatchError
    /\ base = {}
    /\ ~SequentialResults

\* ---------------------------------------------------------------- C21
\* C21: reset() on a wrapper that holds resource r calls the wrapper's deleter
\* on r once and leaves the wrapper with get() null and false as bool; reset()
\* on an empty wrapper changes nothing and calls no deleter, and neither does
\* the destruction of an empty wrapper call one.
C21_Reset ==
    [][/\ raiiOp'.op = "reset" =>
            LET w == raiiOp'.w
                r == RaiiGet(wrappers, w)
            IN  /\ RaiiGet(wrappers', w) = Null
                /\ ~RaiiBool(wrappers', w)
                /\ r # Null =>
                      /\ deleterLog'.n = [deleterLog.n EXCEPT ![r] = @ + 1]
                      /\ deleterLog'.n[r] = 1
                      /\ deleterLog'.by[r] = wrappers[w].deleter_
                /\ r = Null => (deleterLog' = deleterLog /\ wrappers' = wrappers)
       /\ (raiiOp'.op = "destroy" /\ RaiiGet(wrappers, raiiOp'.w) = Null)
              => deleterLog' = deleterLog
      ]_vars

\* the only wrapper ever constructed was given a resource, was reset and then
\* destroyed: the deleter was called once, by the reset
C21_Witness ==
    /\ raiiOp.op = "destroy"
    /\ \E w \in Wrappers :
          /\ raiiOp.w = w
          /\ \A o \in Wrappers \ {w} : wrappers[o].life = "none"
          /\ RaiiGet(wrappers, w) = Null
          /\ \E r \in Resources : deleterLog.n[r] = 1 /\ deleterLog.by[r] = w

\* ---------------------------------------------------------------- C24
\* C24: w = std::move(o) with o another wrapper calls the deleter w had before
\* the assignment once on the resource w held, if that was not null, and no
\* other deleter; then w holds what o held and o is empty.  With o the same
\* wrapper as w nothing changes and no deleter is called.
C24_MoveAssign ==
    [][raiiOp'.op = "moveAssign" =>
          LET w == raiiOp'.w
              o == raiiOp'.o
              r == RaiiGet(wrappers, w)
          IN  IF w # o
              THEN /\ RaiiGet(wrappers', w) = RaiiGet(wrappers, o)
                   /\ RaiiGet(wrappers', o) = Null
                   /\ ~RaiiBool(wrappers', o)
                   /\ r # Null =>
                         /\ deleterLog'.n = [deleterLog.n EXCEPT ![r] = @ + 1]
                         /\ deleterLog'.n[r] = 1
                         /\ deleterLog'.by[r] = wrappers[w].deleter_
                         /\ wrappers[w].deleter_ # Null
                         /\ ~deleterLog'.null
                   /\ r = Null => deleterLog' = deleterLog
              ELSE wrappers' = wrappers /\ deleterLog' = deleterLog]_vars

\* w held one resource and was assigned the other from o: the first was
\* released by the deleter w was constructed with, w holds the second, o is
\* empty
C24_Witness ==
    /\ raiiOp.op = "moveAssign"
    /\ raiiOp.w # raiiOp.o
    /\ RaiiGet(wrappers, raiiOp.w) # Null
    /\ RaiiGet(wrappers, raiiOp.o) = Null
    /\ wrappers[raiiOp.w].deleter_ = raiiOp.o
    /\ \E r \in Resources :
          /\ deleterLog.n[r] = 1
          /\ deleterLog.by[r] = raiiOp.w
          /\ deleterLog.n[RaiiGet(wrappers, raiiOp.w)] = 0

\* ---------------------------------------------------------------- C25
\* C25: no deleter is ever called with a null resource; a wrapper whose
\* resource is null (constructed with null, moved from, or reset) calls no
\* deleter when it is destroyed, reset, or assigned to.
C25_NoNullDelete ==
    [][/\ ~deleterLog'.null
       /\ (/\ raiiOp'.op \in {"destroy", "reset", "moveAssign"}
           /\ RaiiGet(wrappers, raiiOp'.w) = Null)
              => deleterLog' = deleterLog
      ]_vars

\* every wrapper was destroyed and no deleter was ever called: the wrappers
\* were constructed with null
C25_Witness ==
    /\ raiiOp.op = "destroy"
    /\ \A w \in Wrappers : wrappers[w].life = "destroyed"
    /\ \A r \in Resources : deleterLog.n[r] = 0
    /\ ~deleterLog.null

\* ---------------------------------------------------------------- C22
\* C22: a set(k, v) or remove(k) leaves every other key k2 as it was: has(k2)
\* and what get<T>(k2) returns or throws, for every T, are the same after the
\* call as before it.
C22_Frame ==
    [][result'.op \in {"set", "remove"} =>
          \A k2 \in Keys \ {result'.key} :
              /\ has(values_', k2).found = has(values_, k2).found
              /\ \A T \in TemplateArgs :
                    get(values_', k2, T).ret = get(values_, k2, T).ret
              /\ Nodes(values_', k2) = Nodes(values_, k2)]_vars

\* a set or remove changed its key while another key was in the store
C22_Witness ==
    /\ result.op \in {"set", "remove"}
    /\ result.prev # "none"
    /\ \E k2 \in Keys \ {result.key} : has(values_, k2).found

\* ---------------------------------------------------------------- C23
\* the object types U for which get<U>(key) returns a value
Readable(m, key) ==
    {U \in ValueTypes :
        get(m, key, [name |-> U, const |-> FALSE, ref |-> FALSE]).ret.kind = "ok"}

\* C23: no node of the map holds the default-constructed ConfigValue (tag
\* void, data_ null), and for every key with has(k) true get<T>(k) returns a
\* value for exactly one object type T.
C23_NoPlaceholder ==
    /\ \A n \in values_ :
          /\ n.value # DefaultConfigValue
          /\ n.value.type_ # VoidType
          /\ n.value.data_ # NullPtr
    /\ \A k \in Keys :
          has(values_, k).found => Cardinality(Readable(values_, k)) = 1

\* a set has just inserted a node for a key that was not in the map, so
\* operator[] default-constructed the node before the assignment
C23_Witness ==
    /\ result.op = "set"
    /\ result.prev = "none"
    /\ has(values_, result.key).found
    /\ Readable(values_, result.key) = {result.T.name}

\* ---------------------------------------------------------------- C26
\* the number of quests of qs that report isCompleted()
CompletedCount(qs) == Cardinality({i \in 1..Len(qs) : isCompleted(qs[i])})

\* C26: the c/n shown by showProgress has n the number of quests added and
\* 0 <= c <= n, c is the number of quests whose isCompleted() is true, and no
\* call makes c smaller.
C26_ProgressCounter ==
    [][LET before == showProgress(quests_, currentQuest_)
           after == showProgress(quests_', currentQuest_')
       IN  /\ after.n = Len(quests_')
           /\ 0 <= after.c /\ after.c <= after.n
           /\ after.c = CompletedCount(quests_')
           /\ before.c = CompletedCount(quests_)
           /\ after.c >= before.c
      ]_vars

\* two of three quests are completed, the third was started and is not
C26_Witness ==
    /\ showProgress(quests_, currentQuest_).c = 2
    /\ showProgress(quests_, currentQuest_).n = 3
    /\ quests_[3].starts > 0
    /\ questOp.op = "startNextQuest"

\* ---------------------------------------------------------------- C27
\* C27: for every quest the status Quest::showProgress prints is "Completed"
\* exactly when isCompleted() returns true.
C27_StatusAgrees ==
    \A i \in 1..Len(quests_) :
        (questShowProgress(quests_[i]) = "Completed") <=> isCompleted(quests_[i])

\* a quest of each kind was started: one shows Completed, one In Progress
C27_Witness ==
    /\ \E i \in 1..Len(quests_) :
          /\ quests_[i].kind = "ask" /\ quests_[i].starts > 1
          /\ questShowProgress(quests_[i]) = "Completed"
    /\ \E i \in 1..Len(quests_) :
          /\ quests_[i].kind = "mockFail" /\ quests_[i].starts > 0
          /\ questShowProgress(quests_[i]) = "In Progress"

\* ---------------------------------------------------------------- C29
\* every quest added reports isCompleted()
AllCompleted(qs) == \A i \in 1..Len(qs) : isCompleted(qs[i])

\* C29: a turn of the main loop that stays in the loop began with a quest not
\* completed and the answer yes; the loop is left exactly when all quests are
\* completed or the answer is no; the congratulations are printed exactly
\* when all quests are completed at that point; and a quest that was started
\* and is not completed is the quest the next turn starts.
C29_MainLoop ==
    [][/\ (mainPc = "loop" /\ mainPc' = "loop") =>
              /\ ~AllCompleted(quests_)
              /\ questOp'.op = "startNextQuest"
       /\ mainPc = "loop" =>
              ((mainPc' = "after")
                  <=> (AllCompleted(quests_) \/ questOp'.op = "break"))
       /\ mainPc' = "done" =>
              /\ congratulated' <=> AllCompleted(quests_')
              /\ quests_' = quests_
       /\ mainPc' # "done" => ~congratulated'
       /\ (/\ questOp'.op = "startNextQuest"
           /\ questOp'.started > 0
           /\ ~isCompleted(quests_'[questOp'.started])) =>
              /\ mainPc' = "loop"
              /\ ~allQuestsCompleted(quests_', currentQuest_')
              /\ startNextQuest(quests_', currentQuest_', TRUE).started
                     = questOp'.started
      ]_vars

\* main has returned after the congratulations, and the user had failed a
\* quest once and passed it when it was offered again
C29_Witness ==
    /\ mainPc = "done"
    /\ congratulated
    /\ AllCompleted(quests_)
    /\ \E i \in 1..Len(quests_) : quests_[i].starts = 2

\* ---------------------------------------------------------------- C28
\* the answers among rs that are the expected yes or no of their question
Score(name, rs) ==
    Cardinality({i \in 1..Len(rs) : rs[i] = Expected(name)[i]})

\* C28: when the start() of a quest with a quiz returns, the quest is
\* completed exactly when the last run of the quiz had at least 4 of its 7
\* answers equal to the expected yes or no.  After a run with fewer than 4 the
\* quest is not completed and the user is asked about a retry: a yes runs the
\* whole quest again from the first question with the count at 0, a no
\* returns with the quest not completed.
C28_QuizPass ==
    [][LET quest == quests_'[currentQuest_ + 1]
           score == Score(quest.name, replies')
       IN  /\ (quizPc # "idle" /\ quizPc' = "idle") =>
                  /\ Len(replies') = 7
                  /\ isCompleted(quest) <=> score >= 4
                  /\ currentQuest_' = IF score >= 4 THEN currentQuest_ + 1
                                      ELSE currentQuest_
           /\ (quizPc = "ask" /\ Len(replies') = 7) =>
                  /\ correct' = score
                  /\ score >= 4 => (isCompleted(quest) /\ quizPc' = "idle")
                  /\ score < 4 => (~isCompleted(quest) /\ quizPc' = "retry")
           /\ (quizPc = "retry" /\ quizPc' = "ask") =>
                  /\ replies' = <<>> /\ correct' = 0
                  /\ ~isCompleted(quest)
           /\ (quizPc = "retry" /\ quizPc' = "idle") =>
                  (~isCompleted(quest) /\ score < 4)
      ]_vars

\* MemoryQuest was completed in a retry with exactly 4 correct answers, one of
\* them the no to its second question
C28_Witness ==
    /\ quizPc = "idle"
    /\ questOp = [op |-> "startNextQuest", started |-> 2]
    /\ currentQuest_ = 2
    /\ attempts = 2
    /\ Len(replies) = 7 /\ ~replies[2]
    /\ Score("MemoryQuest", replies) = 4
    /\ isCompleted(quests_[2])

\* ---------------------------------------------------------------- C30
\* C30: a quest that was never started is not completed; a quest whose
\* isCompleted() is true keeps it true; and "Quest Completed" is printed at
\* most once for a quest, exactly when it becomes completed, retries of the
\* quiz included.
C30_CompletedOnce ==
    [][/\ \A i \in 1..Len(quests_) :
              isCompleted(quests_[i]) => isCompleted(quests_'[i])
       /\ \A i \in 1..Len(quests_') :
              /\ quests_'[i].starts = 0 => ~isCompleted(quests_'[i])
              /\ quests_'[i].announced <= 1
              /\ quests_'[i].announced = 1 <=> isCompleted(quests_'[i])
      ]_vars

\* the first quest was not completed by its first start and was completed by
\* its second; the second quest was started and its quiz was failed
C30_Witness ==
    /\ Len(quests_) >= 2
    /\ quests_[1].starts = 2
    /\ quests_[1].announced = 1
    /\ isCompleted(quests_[1])
    /\ quests_[2].starts = 1
    /\ quizPc = "retry"

====
